---------------------------- MODULE Spec2Model ----------------------------
(***************************************************************************)
(* A model of the classical-logic library: the lexer (_lex), the           *)
(* recursive-descent parser (_Parser, prop), the proposition classes of    *)
(* flogic.core with their interpretation (_interpret) and their string     *)
(* formatting (formal, __str__).                                           *)
(*                                                                         *)
(* A text is a sequence of characters, a character a one-character string; *)
(* a character outside ASCII is the string of its code point, "U+00E9".    *)
(* Python's None is the value None below.                                  *)
(***************************************************************************)
EXTENDS Integers, Sequences, FiniteSets, TLC

VARIABLES text, gen, toks, lexerr, u, i, arg, src, call, out

vars == <<text, gen, toks, lexerr, u, i, arg, src, call, out>>

-----------------------------------------------------------------------------
(* Bounds of the model.                                                    *)

\* longest text drawn character by character
MaxTextLen == 3

\* most tokens in a text drawn token by token
MaxTokens == 4

\* most binary operators in a text without parentheses
MaxOps == 3

\* longest chain A1 op A2 op ... op An
MaxChain == 4

\* most nodes of a proposition drawn for interpretation and formatting
MaxNodes == 5

\* most whitespace characters inserted at one place of a text
MaxInsert == 1

\* the indices of u[index] are -MaxIndex .. MaxIndex
MaxIndex == 3

\* the most "~" in front of a unit
MaxNegations == 3

\* the most pairs of parentheses put around a text
MaxWrap == 2

-----------------------------------------------------------------------------
(* Characters.                                                             *)

None == "None"

\* [a-zA-Z] among the characters of the model
AsciiLetters == {"P", "Q", "R", "S", "T", "p", "r", "o"}

\* [0-9] among the characters of the model
AsciiDigits == {"1"}

\* the characters on which str.isalpha() holds: the ASCII letters and the
\* letters outside ASCII, here LATIN SMALL LETTER E WITH ACUTE
Letters == AsciiLetters \cup {"U+00E9"}

\* the characters on which str.isalnum() holds and str.isalpha() does not:
\* the ASCII digits and the digits outside ASCII, here ARABIC-INDIC DIGIT
\* THREE
Digits == AsciiDigits \cup {"U+0663"}

isalpha(c) == c \in Letters

isalnum(c) == c \in Letters \cup Digits

\* the space alone
OnlySpace == {" "}

\* " \t\f\r\n"
Whitespace == {" ", "\t", "\f", "\r", "\n"}

\* the characters texts are drawn from
Chars == {"P", "_", "1", "~", "&", "|", "-", ">", "<", "(", ")", " ", "$"}

-----------------------------------------------------------------------------
(* Messages.                                                               *)

NoError == [exc |-> "none", msg |-> "", arg |-> <<>>]

UNEXP_END_OF_STR ==
    [exc |-> "ValueError", msg |-> "unexpected end of string", arg |-> <<>>]

unexp_char(c) ==
    [exc |-> "ValueError", msg |-> "unexpected character", arg |-> <<c>>]

unexp_token(token_value) ==
    [exc |-> "ValueError", msg |-> "unexpected token", arg |-> token_value]

\* what next(iterator) without a default raises on an exhausted iterator
StopIteration == [exc |-> "StopIteration", msg |-> "", arg |-> <<>>]

-----------------------------------------------------------------------------
(* Lexical analysis.  The generator _lex is modelled by its state between  *)
(* two calls of next(): the position of the character iterator `it` (the   *)
(* number of characters taken from it), the variable c, and the place it   *)
(* is suspended at:                                                        *)
(*   "start"        not started,                                           *)
(*   "yield"        at the yield of an operator or separator token, so     *)
(*                  that resuming runs c = next(it, None),                 *)
(*   "yield_ident"  at the yield of an ATOMIC token, so that resuming      *)
(*                  runs `continue` and keeps c,                           *)
(*   "closed"       returned or raised.                                    *)

\* next(it, None) for the iterator at position pos
next_char(s, pos) == IF pos < Len(s) THEN s[pos + 1] ELSE None

next_pos(s, pos) == IF pos < Len(s) THEN pos + 1 ELSE pos

GenStart == [at |-> "start", pos |-> 0, c |-> None]

GenClosed(pos) == [at |-> "closed", pos |-> pos, c |-> None]

\* Token with the text kept for identifiers only
Token_unvalued(type, value, g) ==
    [kind |-> "token", type |-> type,
     value |-> IF type = "ATOMIC" THEN value ELSE <<>>, err |-> NoError, g |-> g]

Token(type, value, g) ==
    [kind |-> "token", type |-> type, value |-> value, err |-> NoError, g |-> g]

\* Stop with the generator left suspended at the end of the text
Stop_suspended(pos) ==
    [kind |-> "stop", type |-> None, value |-> <<>>, err |-> NoError,
     g |-> [at |-> "yield", pos |-> pos, c |-> None]]

Stop(pos) ==
    [kind |-> "stop", type |-> None, value |-> <<>>, err |-> NoError,
     g |-> GenClosed(pos)]

Raise(err, pos) ==
    [kind |-> "raise", type |-> None, value |-> <<>>, err |-> err,
     g |-> GenClosed(pos)]

\* lex_accept without the comparison with the expected character
lex_accept_any(s, pos, expected) ==
    IF next_char(s, pos) = None THEN UNEXP_END_OF_STR ELSE NoError

\* _lex_accept(it, expected): the error raised, or NoError
lex_accept(s, pos, expected) ==
    LET c == next_char(s, pos)
    IN  IF c = None THEN UNEXP_END_OF_STR
        ELSE IF c # expected THEN unexp_char(c)
        ELSE NoError

\* the inner loop of the identifier branch: the position of the iterator
\* when the loop ends, having taken the characters s[from+1 .. result]
RECURSIVE ident_end(_, _)
ident_end(s, pos) ==
    LET c == next_char(s, pos)
    IN  IF c = None THEN pos
        ELSE IF isalnum(c) \/ c = "_" THEN ident_end(s, pos + 1)
        ELSE pos + 1

\* one iteration of `while True` with the variable c, up to the next yield,
\* return or raise
RECURSIVE lex_loop(_, _, _)
lex_loop(s, pos, c) ==
    IF c = None THEN Stop(pos)
    ELSE IF c = "~" THEN Token("NOT", <<"~">>, [at |-> "yield", pos |-> pos, c |-> c])
    ELSE IF c = "&" THEN Token("AND", <<"&">>, [at |-> "yield", pos |-> pos, c |-> c])
    ELSE IF c = "|" THEN Token("OR", <<"|">>, [at |-> "yield", pos |-> pos, c |-> c])
    ELSE IF c = "-" THEN
        LET e == lex_accept(s, pos, ">")
        IN  IF e # NoError THEN Raise(e, next_pos(s, pos))
            ELSE Token("IMPLIES", <<"-", ">">>,
                       [at |-> "yield", pos |-> pos + 1, c |-> c])
    ELSE IF c = "<" THEN
        LET e1 == lex_accept(s, pos, "-")
        IN  IF e1 # NoError THEN Raise(e1, next_pos(s, pos))
            ELSE LET e2 == lex_accept(s, pos + 1, ">")
                 IN  IF e2 # NoError THEN Raise(e2, next_pos(s, pos + 1))
                     ELSE Token("IFF", <<"<", "-", ">">>,
                                [at |-> "yield", pos |-> pos + 2, c |-> c])
    ELSE IF c = "(" THEN Token("LPARENS", <<"(">>, [at |-> "yield", pos |-> pos, c |-> c])
    ELSE IF c = ")" THEN Token("RPARENS", <<")">>, [at |-> "yield", pos |-> pos, c |-> c])
    ELSE IF c \in Whitespace THEN lex_loop(s, next_pos(s, pos), next_char(s, pos))
    ELSE IF isalpha(c) \/ c = "_" THEN
        LET e == ident_end(s, pos)
            \* the identifier is s[pos .. last]: the loop ended at the end of
            \* the text, or on the character s[e], which c keeps
            last == IF isalnum(s[e]) \/ s[e] = "_" THEN e ELSE e - 1
            after == IF last = e THEN None ELSE s[e]
        IN  Token("ATOMIC", SubSeq(s, pos, last),
                  [at |-> "yield_ident", pos |-> e, c |-> after])
    ELSE Raise(unexp_char(c), pos)

\* lex_next without the `continue` of the identifier branch
lex_next_advancing(s, g) ==
    IF g.at = "closed" THEN
        [kind |-> "stop", type |-> None, value |-> <<>>, err |-> NoError, g |-> g]
    ELSE lex_loop(s, next_pos(s, g.pos), next_char(s, g.pos))

\* next(generator): runs _lex from where it is suspended
lex_next(s, g) ==
    IF g.at = "closed" THEN
        [kind |-> "stop", type |-> None, value |-> <<>>, err |-> NoError, g |-> g]
    ELSE IF g.at = "yield_ident" THEN lex_loop(s, g.pos, g.c)
    ELSE lex_loop(s, next_pos(s, g.pos), next_char(s, g.pos))

-----------------------------------------------------------------------------
(* Propositions (flogic.core).  A proposition is a record: its class k,    *)
(* the name of a Predicate, and its components kids (inner, or left and    *)
(* right), so that equality of records is the structural equality of the   *)
(* frozen dataclasses.                                                     *)

NoProp == [k |-> "None", name |-> <<>>, kids |-> <<>>]

\* _ident_pattern.fullmatch(name): [a-zA-Z_][a-zA-Z0-9_]*
ident_pattern_fullmatch(name) ==
    /\ Len(name) >= 1
    /\ name[1] \in AsciiLetters \cup {"_"}
    /\ \A j \in 2..Len(name) : name[j] \in AsciiLetters \cup AsciiDigits \cup {"_"}

Predicate(name) == [k |-> "Predicate", name |-> name, kids |-> <<>>]

Not(inner) == [k |-> "Not", name |-> <<>>, kids |-> <<inner>>]

And(left, right) == [k |-> "And", name |-> <<>>, kids |-> <<left, right>>]

Or(left, right) == [k |-> "Or", name |-> <<>>, kids |-> <<left, right>>]

Implies(left, right) == [k |-> "Implies", name |-> <<>>, kids |-> <<left, right>>]

Iff(left, right) == [k |-> "Iff", name |-> <<>>, kids |-> <<left, right>>]

\* Predicate.__post_init__
InvalidPredicateName(name) ==
    [exc |-> "ValueError", msg |-> "Invalid predicate name", arg |-> name]

-----------------------------------------------------------------------------
(* Parsing.  The state of a _Parser is the generator _token_stream and the *)
(* current token; a rule returns the proposition and the parser's state,   *)
(* or the exception raised.                                                *)

Parsed(p, ps) == [ok |-> TRUE, prop |-> p, err |-> NoError, ps |-> ps]

Failed(err, ps) == [ok |-> FALSE, prop |-> NoProp, err |-> err, ps |-> ps]

\* A rule is written as a chain of operators, one per call it makes, each
\* taking what the call before it returned (ok) or raised (not ok, which it
\* passes on).

\* the assignment of _Parser._advance, given what next() gave
advance_assign(ps, r) ==
    IF r.kind = "raise" THEN Failed(r.err, [ps EXCEPT !.g = r.g])
    ELSE Parsed(NoProp, [g |-> r.g, type |-> r.type, value |-> r.value])

\* _Parser._advance: next(self._token_stream, (None, ""))
advance(s, ps) == advance_assign(ps, lex_next(s, ps.g))

\* unit_raise without the test for the end of the token stream
unit_raise_token(ps) == Failed(unexp_token(ps.value), ps)

\* the end of _Parser.unit, reached when the current token starts no unit
\* or is not the ")" that closes one
unit_raise(ps) ==
    IF ps.type = None THEN Failed(UNEXP_END_OF_STR, ps)
    ELSE Failed(unexp_token(ps.value), ps)

RECURSIVE bic(_, _), cond(_, _), disj(_, _), disj_while(_, _), conj(_, _),
          conj_while(_, _), neg(_, _), unit(_, _)

\* return Iff(left, self.bic())
bic_return(left, right) ==
    IF ~right.ok THEN right ELSE Parsed(Iff(left.prop, right.prop), right.ps)

bic_advanced(s, left, a) ==
    IF ~a.ok THEN a ELSE bic_return(left, bic(s, a.ps))

bic_if(s, left) ==
    IF ~left.ok THEN left
    ELSE IF left.ps.type = "IFF" THEN bic_advanced(s, left, advance(s, left.ps))
    ELSE left

bic(s, ps) == bic_if(s, cond(s, ps))

\* return Implies(left, self.cond())
cond_return(left, right) ==
    IF ~right.ok THEN right ELSE Parsed(Implies(left.prop, right.prop), right.ps)

\* cond_advanced with the right operand parsed by disj: no recursion
cond_advanced_flat(s, left, a) ==
    IF ~a.ok THEN a ELSE cond_return(left, disj(s, a.ps))

cond_advanced(s, left, a) ==
    IF ~a.ok THEN a ELSE cond_return(left, cond(s, a.ps))

cond_if(s, left) ==
    IF ~left.ok THEN left
    ELSE IF left.ps.type = "IMPLIES" THEN cond_advanced(s, left, advance(s, left.ps))
    ELSE left

conj(s, ps) == conj_while(s, neg(s, ps))

disj(s, ps) == disj_while(s, conj(s, ps))

cond(s, ps) == cond_if(s, disj(s, ps))

\* current_prop = Or(current_prop, self.conj())
disj_assign(current, right) ==
    IF ~right.ok THEN right ELSE Parsed(Or(current.prop, right.prop), right.ps)

disj_advanced(s, current, a) ==
    IF ~a.ok THEN a ELSE disj_while(s, disj_assign(current, conj(s, a.ps)))

\* the while loop of _Parser.disj, current the proposition current_prop and
\* the parser's state
disj_while(s, current) ==
    IF ~current.ok THEN current
    ELSE IF current.ps.type = "OR"
    THEN disj_advanced(s, current, advance(s, current.ps))
    ELSE current

\* conj_assign with the operands exchanged
conj_assign_swapped(current, right) ==
    IF ~right.ok THEN right ELSE Parsed(And(right.prop, current.prop), right.ps)

\* current_prop = And(current_prop, self.neg())
conj_assign(current, right) ==
    IF ~right.ok THEN right ELSE Parsed(And(current.prop, right.prop), right.ps)

conj_advanced(s, current, a) ==
    IF ~a.ok THEN a ELSE conj_while(s, conj_assign(current, neg(s, a.ps)))

\* the while loop of _Parser.conj
conj_while(s, current) ==
    IF ~current.ok THEN current
    ELSE IF current.ps.type = "AND"
    THEN conj_advanced(s, current, advance(s, current.ps))
    ELSE current

\* return Not(self.neg())
\* neg_return with a double negation dropped
neg_return_collapsed(inner) ==
    IF ~inner.ok THEN inner
    ELSE IF inner.prop.k = "Not" THEN Parsed(inner.prop.kids[1], inner.ps)
    ELSE Parsed(Not(inner.prop), inner.ps)

neg_return(inner) ==
    IF ~inner.ok THEN inner ELSE Parsed(Not(inner.prop), inner.ps)

\* neg_advanced with the operand of "~" parsed by conj
neg_advanced_conj(s, a) == IF ~a.ok THEN a ELSE neg_return(conj(s, a.ps))

neg_advanced(s, a) == IF ~a.ok THEN a ELSE neg_return(neg(s, a.ps))

neg(s, ps) ==
    IF ps.type = "NOT" THEN neg_advanced(s, advance(s, ps)) ELSE unit(s, ps)

\* The leaf class the parser instantiates is the package's nullary
\* proposition class (imported as Atomic), here flogic.core.Predicate.
unit_atomic(value, a) == IF ~a.ok THEN a ELSE Parsed(Predicate(value), a.ps)

unit_closed(p, a) == IF ~a.ok THEN a ELSE Parsed(p.prop, a.ps)

\* after prop = self.bic(): the ")" is consumed, or the rule falls through
\* to its raise
unit_close(s, p) ==
    IF ~p.ok THEN p
    ELSE IF p.ps.type = "RPARENS" THEN unit_closed(p, advance(s, p.ps))
    ELSE unit_raise(p.ps)

unit_parens(s, a) == IF ~a.ok THEN a ELSE unit_close(s, bic(s, a.ps))

unit(s, ps) ==
    IF ps.type = "ATOMIC" THEN
        IF ~ident_pattern_fullmatch(ps.value)
        THEN Failed(InvalidPredicateName(ps.value), ps)
        ELSE unit_atomic(ps.value, advance(s, ps))
    ELSE IF ps.type = "LPARENS" THEN unit_parens(s, advance(s, ps))
    ELSE unit_raise(ps)

\* the assignment of _Parser.__init__, given what next() gave
Parser_assign(r) ==
    IF r.kind = "raise"
    THEN Failed(r.err, [g |-> r.g, type |-> r.type, value |-> r.value])
    ELSE IF r.kind = "stop"
    THEN Failed(StopIteration, [g |-> r.g, type |-> r.type, value |-> r.value])
    ELSE Parsed(NoProp, [g |-> r.g, type |-> r.type, value |-> r.value])

\* _Parser.__init__: next(self._token_stream), without a default
Parser(s) == Parser_assign(lex_next(s, GenStart))

prop_bic(s, p) == IF ~p.ok THEN p ELSE bic(s, p.ps)

\* prop(text): _Parser(text).bic()
prop(s) == prop_bic(s, Parser(s))

\* list(_lex(text)): the tokens yielded, and the exception that ended the
\* generator if one did
RECURSIVE lex_from(_, _, _)

lex_append(s, yielded, r) ==
    IF r.kind = "token"
    THEN lex_from(s, r.g, Append(yielded, <<r.type, r.value>>))
    ELSE [tokens |-> yielded, err |-> r.err]

lex_from(s, g, yielded) == lex_append(s, yielded, lex_next(s, g))

lex(s) == lex_from(s, GenStart, <<>>)

-----------------------------------------------------------------------------
(* Interpreting (flogic.core).  An interpretation is a function from some  *)
(* names to booleans; _interpret returns the boolean, or the ValueError    *)
(* raised for the predicate that has no truth value.                       *)

Value(b) == [ok |-> TRUE, val |-> b, err |-> NoError]

Unassigned(name) ==
    [ok |-> FALSE, val |-> FALSE,
     err |-> [exc |-> "ValueError", msg |-> "Predicate not unassigned", arg |-> name]]

\* a & b and a | b on two bool objects
bool_and(a, b) == a /\ b

bool_or(a, b) == a \/ b

\* a is not b
bool_is_not(a, b) == a # b

\* a is b on two bool objects
bool_is(a, b) == a = b

\* r, what an _interpret returned or raised, with the names it has looked
\* up in the interpretation, in the order of the lookups
Looked(r, names) == [ok |-> r.ok, val |-> r.val, err |-> r.err, lookups |-> names]

\* binary_interpret with the operators and / or of Python, which do not
\* interpret the right operand when the left one decides
binary_interpret_short(k, left, right) ==
    IF ~left.ok THEN left
    ELSE IF k = "And" /\ ~left.val THEN Looked(Value(FALSE), left.lookups)
    ELSE IF k \in {"Or", "Implies"} /\ (left.val = (k = "Or"))
    THEN Looked(Value(TRUE), left.lookups)
    ELSE IF ~right.ok THEN Looked(right, left.lookups \o right.lookups)
    ELSE IF k = "And" THEN Looked(Value(right.val), left.lookups \o right.lookups)
    ELSE IF k = "Or" THEN Looked(Value(right.val), left.lookups \o right.lookups)
    ELSE IF k = "Implies" THEN Looked(Value(right.val), left.lookups \o right.lookups)
    ELSE Looked(Value(left.val = right.val), left.lookups \o right.lookups)

\* binary_interpret with the right operand interpreted first
binary_interpret_right_first(k, left, right) ==
    IF ~right.ok THEN right
    ELSE IF ~left.ok THEN Looked(left, right.lookups \o left.lookups)
    ELSE IF k = "And"
    THEN Looked(Value(bool_and(left.val, right.val)), right.lookups \o left.lookups)
    ELSE IF k = "Or"
    THEN Looked(Value(bool_or(left.val, right.val)), right.lookups \o left.lookups)
    ELSE IF k = "Implies"
    THEN Looked(Value(bool_or(~left.val, right.val)), right.lookups \o left.lookups)
    ELSE Looked(Value(bool_is(left.val, right.val)), right.lookups \o left.lookups)

\* And, Or, Implies and Iff._interpret, given what interpreting the left
\* and the right operand gave: both operands are interpreted, the left one
\* first (the right one is not reached when the left one raises), and the
\* operator is applied to the two booleans
binary_interpret(k, left, right) ==
    IF ~left.ok THEN left
    ELSE IF ~right.ok THEN Looked(right, left.lookups \o right.lookups)
    ELSE IF k = "And"
    THEN Looked(Value(bool_and(left.val, right.val)), left.lookups \o right.lookups)
    ELSE IF k = "Or"
    THEN Looked(Value(bool_or(left.val, right.val)), left.lookups \o right.lookups)
    ELSE IF k = "Implies"
    THEN Looked(Value(bool_or(~left.val, right.val)), left.lookups \o right.lookups)
    ELSE Looked(Value(bool_is(left.val, right.val)), left.lookups \o right.lookups)

RECURSIVE interpret(_, _)
interpret(p, interpretation) ==
    IF p.k = "Predicate" THEN
        IF p.name \in DOMAIN interpretation
        THEN Looked(Value(interpretation[p.name]), <<p.name>>)
        ELSE Looked(Unassigned(p.name), <<p.name>>)
    ELSE IF p.k = "Not" THEN
        LET inner == interpret(p.kids[1], interpretation)
        IN  IF ~inner.ok THEN inner ELSE Looked(Value(~inner.val), inner.lookups)
    ELSE binary_interpret(p.k, interpret(p.kids[1], interpretation),
                          interpret(p.kids[2], interpretation))

\* Proposition.__call__ with a mapping
call_prop(p, mapping) == interpret(p, mapping)

\* Interpreting in the draft plogic.core, whose leaves are Atomic: the
\* leaf of the model stands for Atomic(name) here.

\* Atomic._interpret raising
plogic_Unassigned(name) ==
    [ok |-> FALSE, val |-> FALSE,
     err |-> [exc |-> "ValueError", msg |-> "Atomic was left unassigned", arg |-> name]]

\* the binary _interpret with both operands interpreted before the
\* operator is applied
plogic_binary_interpret_strict(k, left, right) ==
    IF ~left.ok THEN left
    ELSE IF ~right.ok THEN Looked(right, left.lookups \o right.lookups)
    ELSE IF k = "And" THEN Looked(Value(left.val /\ right.val), left.lookups \o right.lookups)
    ELSE IF k = "Or" THEN Looked(Value(left.val \/ right.val), left.lookups \o right.lookups)
    ELSE IF k = "Implies"
    THEN Looked(Value(~left.val \/ right.val), left.lookups \o right.lookups)
    ELSE Looked(Value(left.val = right.val), left.lookups \o right.lookups)

\* And, Or, Implies and Iff._interpret of plogic.core: `left and right`,
\* `left or right`, `not left or right`, which interpret the right operand
\* only when the left one does not decide, and `left == right`
plogic_binary_interpret(k, left, right) ==
    IF ~left.ok THEN left
    ELSE IF k = "And" THEN
        IF ~left.val THEN left
        ELSE IF ~right.ok THEN Looked(right, left.lookups \o right.lookups)
        ELSE Looked(Value(right.val), left.lookups \o right.lookups)
    ELSE IF k = "Or" THEN
        IF left.val THEN left
        ELSE IF ~right.ok THEN Looked(right, left.lookups \o right.lookups)
        ELSE Looked(Value(right.val), left.lookups \o right.lookups)
    ELSE IF k = "Implies" THEN
        IF ~left.val THEN Looked(Value(TRUE), left.lookups)
        ELSE IF ~right.ok THEN Looked(right, left.lookups \o right.lookups)
        ELSE Looked(Value(right.val), left.lookups \o right.lookups)
    ELSE IF ~right.ok THEN Looked(right, left.lookups \o right.lookups)
    ELSE Looked(Value(left.val = right.val), left.lookups \o right.lookups)

RECURSIVE plogic_interpret(_, _)
plogic_interpret(p, interpretation) ==
    IF p.k = "Predicate" THEN
        IF p.name \in DOMAIN interpretation
        THEN Looked(Value(interpretation[p.name]), <<p.name>>)
        ELSE Looked(plogic_Unassigned(p.name), <<p.name>>)
    ELSE IF p.k = "Not" THEN
        LET inner == plogic_interpret(p.kids[1], interpretation)
        IN  IF ~inner.ok THEN inner ELSE Looked(Value(~inner.val), inner.lookups)
    ELSE plogic_binary_interpret(p.k, plogic_interpret(p.kids[1], interpretation),
                                 plogic_interpret(p.kids[2], interpretation))

\* Proposition.__call__ of plogic.core, with a mapping or with keywords
plogic_call(p, mapping) == plogic_interpret(p, mapping)

\* the abstract methods of Proposition that class cls of plogic.core does
\* not define: every class defines _interpret, none defines formal
plogic_abstractmethods(cls) == {"formal"}

\* cls(...): a class that has abstract methods is not instantiated
plogic_new(cls, obj) ==
    IF plogic_abstractmethods(cls) # {}
    THEN [ok |-> FALSE, val |-> NoProp,
          err |-> [exc |-> "TypeError", msg |-> "Can't instantiate abstract class",
                   arg |-> cls]]
    ELSE [ok |-> TRUE, val |-> obj, err |-> NoError]

RECURSIVE plogic_construct(_)
\* p built from its leaves up, the left operand before the right one, as
\* the parser and the composing operators build it: the proposition, or
\* what the first constructor that raises raised
plogic_construct(p) ==
    IF p.k = "Predicate" THEN plogic_new("Atomic", p)
    ELSE IF ~plogic_construct(p.kids[1]).ok THEN plogic_construct(p.kids[1])
    ELSE IF Len(p.kids) = 2 /\ ~plogic_construct(p.kids[2]).ok
    THEN plogic_construct(p.kids[2])
    ELSE plogic_new(p.k, p)

\* p built in plogic.core and called with the interpretation
plogic_construct_call(p, mapping) ==
    IF ~plogic_construct(p).ok
    THEN Looked([ok |-> FALSE, val |-> FALSE, err |-> plogic_construct(p).err], <<>>)
    ELSE plogic_call(plogic_construct(p).val, mapping)

-----------------------------------------------------------------------------
(* Creating, accessing, comparing and composing (flogic.core).  A call      *)
(* returns Value(v) or raises: Raised(e).  An object that is no            *)
(* Proposition is a record of its class alone.                             *)

Raised(e) == [ok |-> FALSE, val |-> None, err |-> e]

\* re.match in place of re.fullmatch: a prefix of the name matches
ident_pattern_match(name) ==
    /\ Len(name) >= 1
    /\ name[1] \in AsciiLetters \cup {"_"}

\* Predicate_init with the pattern matched by re.match
Predicate_init_match(name) ==
    IF ~ident_pattern_match(name) THEN Raised(InvalidPredicateName(name))
    ELSE Value(Predicate(name))

\* Predicate(name): the dataclass __init__ stores the name and calls
\* __post_init__
Predicate_init(name) ==
    IF ~ident_pattern_fullmatch(name) THEN Raised(InvalidPredicateName(name))
    ELSE Value(Predicate(name))

\* the truth value of an object without __bool__ and __len__
bool_object(p) == Value(TRUE)

\* Proposition.__bool__
bool_prop(p) ==
    Raised([exc |-> "TypeError",
            msg |-> "The truth value of a Proposition is ambiguous", arg |-> <<>>])

IndexError(index) == [exc |-> "IndexError", msg |-> "Expected", arg |-> index]

\* the indexing of a tuple of the components, which counts a negative
\* index from the end
getitem_tuple(p, index) ==
    IF index >= 0 /\ index < Len(p.kids) THEN Value(p.kids[index + 1])
    ELSE IF index < 0 /\ -index <= Len(p.kids)
    THEN Value(p.kids[Len(p.kids) + index + 1])
    ELSE Raised(IndexError(index))

\* Predicate.__getitem__, _LogicOp1.__getitem__ and _LogicOp2.__getitem__
getitem(p, index) ==
    IF p.k = "Predicate" THEN Raised(IndexError(index))
    ELSE IF p.k = "Not" THEN
        IF index = 0 THEN Value(p.kids[1]) ELSE Raised(IndexError(index))
    ELSE IF index = 0 THEN Value(p.kids[1])
    ELSE IF index = 1 THEN Value(p.kids[2])
    ELSE Raised(IndexError(index))

\* list(p): Predicate.__iter__, _LogicOp1.__iter__ and _LogicOp2.__iter__
iter_prop(p) ==
    IF p.k = "Predicate" THEN <<>>
    ELSE IF p.k = "Not" THEN <<p.kids[1]>>
    ELSE <<p.kids[1], p.kids[2]>>

RECURSIVE degree_nested(_)
\* the number of connectives of p
degree_nested(p) ==
    IF p.k = "Predicate" THEN 0
    ELSE IF p.k = "Not" THEN 1 + degree_nested(p.kids[1])
    ELSE 1 + degree_nested(p.kids[1]) + degree_nested(p.kids[2])

\* Predicate.degree, _LogicOp1.degree and _LogicOp2.degree
degree(p) ==
    IF p.k = "Predicate" THEN 0
    ELSE IF p.k = "Not" THEN 1
    ELSE 2

\* an instance of object, and the two bool objects
PyObject(cls) == [k |-> cls, name |-> <<>>, kids |-> <<>>]

\* isinstance(x, Proposition)
isinstance_Proposition(x) ==
    x.k \in {"Predicate", "Not", "And", "Or", "Implies", "Iff"}

NotImplemented == PyObject("NotImplemented")

\* the class has no such method
NoMethod == PyObject("NoMethod")

\* the bool object of a truth value
Bool(b) == PyObject(IF b THEN "True" ELSE "False")

\* type(x)
type(x) == IF x.k \in {"True", "False"} THEN "bool" ELSE x.k

RECURSIVE dataclass_eq(_, _)
\* dataclass_eq with the fields compared as a set: their order is lost
dataclass_eq_unordered(p, q) ==
    IF p.k # q.k THEN NotImplemented
    ELSE IF p.k = "Predicate" THEN Bool(p.name = q.name)
    ELSE Bool(\A a \in 1..Len(p.kids) : \E b \in 1..Len(q.kids) :
                  dataclass_eq(p.kids[a], q.kids[b]) = Bool(TRUE))

\* the __eq__ @dataclass generates: NotImplemented for another class,
\* otherwise the tuples of the fields compared, item by item with ==
dataclass_eq(p, q) ==
    IF p.k # q.k THEN NotImplemented
    ELSE IF p.k = "Predicate" THEN Bool(p.name = q.name)
    ELSE Bool(\A j \in 1..Len(p.kids) :
                  dataclass_eq(p.kids[j], q.kids[j]) = Bool(TRUE))

\* object.__eq__: identity, which no two of the objects here have
object_eq(x, y) == NotImplemented

\* hash(s) of a str: a function of its characters and of the hash seed of
\* the process
str_hash(s, seed) == <<"str", seed>> \o s

\* hash(t) of a tuple: a function of the hashes of its items, in order
tuple_hash(hashes) ==
    <<"(">> \o (IF Len(hashes) = 1 THEN hashes[1] \o <<",">>
                ELSE hashes[1] \o <<",">> \o hashes[2]) \o <<")">>

\* object.__hash__: a function of the identity of the object
object_hash(p, seed, id) == <<"object", id>>

RECURSIVE dataclass_hash(_, _, _)
\* the __hash__ @dataclass generates for eq=True, frozen=True: the hash of
\* the tuple of the fields, whichever object id holds them
dataclass_hash(p, seed, id) ==
    IF p.k = "Predicate" THEN tuple_hash(<<str_hash(p.name, seed)>>)
    ELSE tuple_hash([j \in 1..Len(p.kids) |-> dataclass_hash(p.kids[j], seed, id)])

\* type(x).__eq__(x, y)
dunder_eq(x, y) ==
    IF isinstance_Proposition(x) THEN dataclass_eq(x, y) ELSE object_eq(x, y)

\* x == y: x.__eq__(y), then the reflected y.__eq__(x), then identity
eq(x, y) ==
    IF dunder_eq(x, y) # NotImplemented THEN dunder_eq(x, y)
    ELSE IF dunder_eq(y, x) # NotImplemented THEN dunder_eq(y, x)
    ELSE Bool(FALSE)

\* Proposition_binary with the operand taken as it is
Proposition_binary_coercing(cls, self, other) ==
    [k |-> cls, name |-> <<>>, kids |-> <<self, other>>]

\* Proposition.__and__ (cls "And") and Proposition.__or__ (cls "Or")
Proposition_binary(cls, self, other) ==
    IF isinstance_Proposition(other)
    THEN [k |-> cls, name |-> <<>>, kids |-> <<self, other>>]
    ELSE NotImplemented

\* type(x).__and__(x, y) and type(x).__or__(x, y): Proposition's, bool's
\* (defined for an int operand only), none for object
dunder_binary(cls, x, y) ==
    IF isinstance_Proposition(x) THEN Proposition_binary(cls, x, y)
    ELSE IF x.k \in {"True", "False"} THEN
        IF y.k \in {"True", "False"}
        THEN Bool(IF cls = "And" THEN x.k = "True" /\ y.k = "True"
                  ELSE x.k = "True" \/ y.k = "True")
        ELSE NotImplemented
    ELSE NoMethod

\* type(y).__rand__(y, x) and type(y).__ror__(y, x): bool's; Proposition
\* and object define none
dunder_reflected(cls, y, x) ==
    IF y.k \in {"True", "False"} THEN
        IF x.k \in {"True", "False"} THEN dunder_binary(cls, x, y)
        ELSE NotImplemented
    ELSE NoMethod

TypeError == [exc |-> "TypeError", msg |-> "unsupported operand type(s)", arg |-> <<>>]

\* x & y (cls "And") and x | y (cls "Or"): the method of x, then the
\* reflected method of y when y is of another class, then TypeError
binary_op(cls, x, y) ==
    IF dunder_binary(cls, x, y) \notin {NotImplemented, NoMethod}
    THEN Value(dunder_binary(cls, x, y))
    ELSE IF /\ type(x) # type(y)
            /\ dunder_reflected(cls, y, x) \notin {NotImplemented, NoMethod}
    THEN Value(dunder_reflected(cls, y, x))
    ELSE Raised(TypeError)

-----------------------------------------------------------------------------
(* String formatting (flogic.core).  The f-strings of formal() format the  *)
(* components with str().                                                  *)

RECURSIVE formal(_), str(_)

\* binary_formal without the parentheses
binary_formal_bare(p, op) ==
    str(p.kids[1]) \o <<" ">> \o op \o <<" ">> \o str(p.kids[2])

binary_formal(p, op) ==
    <<"(">> \o str(p.kids[1]) \o <<" ">> \o op \o <<" ">> \o str(p.kids[2]) \o <<")">>

formal(p) ==
    IF p.k = "Predicate" THEN p.name
    ELSE IF p.k = "Not" THEN <<"~">> \o str(p.kids[1])
    ELSE IF p.k = "And" THEN binary_formal(p, <<"&">>)
    ELSE IF p.k = "Or" THEN binary_formal(p, <<"|">>)
    ELSE IF p.k = "Implies" THEN binary_formal(p, <<"-", ">">>)
    ELSE binary_formal(p, <<"<", "-", ">">>)

\* str(p) with the parentheses of the outermost binary node left out
str_outer_bare(p) ==
    IF p.k \in {"Predicate", "Not"} THEN formal(p)
    ELSE SubSeq(formal(p), 2, Len(formal(p)) - 1)

\* __str__ = formal in Predicate, Not, And, Or and Implies; Iff inherits
\* Proposition.__str__, which returns self.formal()
str(p) == formal(p)

\* repr(s) of a str that holds no quote, no backslash and no unprintable
\* character
str_repr(s) == <<"'">> \o s \o <<"'">>

\* Proposition.__repr__
repr(p) == <<"p", "r", "o", "p", "(">> \o str_repr(str(p)) \o <<")">>

-----------------------------------------------------------------------------
(* The inputs the operations are applied to.                               *)

\* every text of at most MaxTextLen characters
CharTexts == UNION {[1..n -> Chars] : n \in 0..MaxTextLen}

Lexemes ==
    {<<"P">>, <<"Q">>, <<"~">>, <<"&">>, <<"|">>, <<"-", ">">>, <<"<", "-", ">">>,
     <<"(">>, <<")">>}

\* characters of identifiers in and outside ASCII, and the space
UnicodeChars == {"P", "_", "1", "U+00E9", "U+0663", " "}

\* every text of at most MaxTextLen of these characters
UnicodeTexts == UNION {[1..n -> UnicodeChars] : n \in 0..MaxTextLen}

\* every text of at most MaxTextLen whitespace characters
WhitespaceTexts == UNION {[1..n -> Whitespace] : n \in 0..MaxTextLen}

RECURSIVE Join(_)
\* the lexemes of ts, one space between two of them
Join(ts) ==
    IF Len(ts) = 0 THEN <<>>
    ELSE IF Len(ts) = 1 THEN ts[1]
    ELSE ts[1] \o <<" ">> \o Join(Tail(ts))

\* every text of at most MaxTokens lexemes
TokenTexts == {Join(ts) : ts \in UNION {[1..n -> Lexemes] : n \in 0..MaxTokens}}

Names == {<<"P">>, <<"Q">>}

BinaryOps == {<<"&">>, <<"|">>, <<"-", ">">>, <<"<", "-", ">">>}

\* A1 op A2 op ... op An
Chain(atoms, op) ==
    Join([j \in 1..(2 * Len(atoms) - 1) |->
            IF j % 2 = 1 THEN atoms[(j + 1) \div 2] ELSE op])

ChainTexts ==
    {Chain(atoms, op) :
        atoms \in UNION {[1..n -> Names] : n \in 2..MaxChain}, op \in BinaryOps}

\* "P <-> Q -> R | S & ~T" and "~P & Q | R -> S <-> T" (tests/test_parsing.py)
PrecedenceText1 ==
    <<"P", " ", "<", "-", ">", " ", "Q", " ", "-", ">", " ", "R", " ", "|", " ",
      "S", " ", "&", " ", "~", "T">>

PrecedenceText2 ==
    <<"~", "P", " ", "&", " ", "Q", " ", "|", " ", "R", " ", "-", ">", " ", "S",
      " ", "<", "-", ">", " ", "T">>

\* the operands of the texts without parentheses: P, Q and ~P
Operands == {<<"P">>, <<"Q">>, <<"~", "P">>}

\* B1 op1 B2 op2 ... opn Bn+1, the operands B and the operators op given
Formula(operands, ops) ==
    Join([j \in 1..(2 * Len(ops) + 1) |->
            IF j % 2 = 1 THEN operands[(j + 1) \div 2] ELSE ops[j \div 2]])

\* every text of at most MaxOps binary operators and no parentheses
OperatorTexts ==
    UNION {{Formula(operands, ops) :
                operands \in [1..(n + 1) -> Operands], ops \in [1..n -> BinaryOps]} :
           n \in 1..MaxOps}

\* three lexemes with nothing between them
LexemeText == <<"P", "&", "Q">>

\* formulas in parentheses where a unit is allowed
ParenthesesText1 == <<"P", " ", "&", " ", "(", "Q", " ", "&", " ", "R", ")">>

ParenthesesText2 == <<"(", "P", " ", "-", ">", " ", "Q", ")", " ", "-", ">", " ", "R">>

\* the units negated: an identifier, a formula in parentheses and a
\* negation in parentheses
NegationUnits == {<<"P">>, <<"(", "P", " ", "&", " ", "Q", ")">>, <<"(", "~", "P", ")">>}

\* n times "~"
Tildes(n) == [j \in 1..n |-> "~"]

\* every unit with at most MaxNegations "~" in front
NegationTexts == {Tildes(n) \o a : n \in 0..MaxNegations, a \in NegationUnits}

ParseTexts ==
    TokenTexts \cup OperatorTexts \cup ChainTexts
        \cup {PrecedenceText1, PrecedenceText2}
        \cup {ParenthesesText1, ParenthesesText2} \cup NegationTexts

\* the propositions of exactly n nodes over the predicate names, sized[m]
\* being those of m nodes for every m < n
PropsOfSize(names, sized, n) ==
    IF n = 1 THEN {Predicate(x) : x \in names}
    ELSE {Not(p) : p \in sized[n - 1]}
         \cup UNION {UNION {{And(l, r), Or(l, r), Implies(l, r), Iff(l, r)} :
                              l \in sized[a], r \in sized[n - 1 - a]} :
                       a \in 1..(n - 2)}

RECURSIVE PropsUpTo(_, _, _)
\* sized, extended to the propositions of n, n + 1, ... MaxNodes nodes
PropsUpTo(names, sized, n) ==
    IF n > MaxNodes THEN sized
    ELSE PropsUpTo(names, Append(sized, PropsOfSize(names, sized, n)), n + 1)

\* the propositions of at most MaxNodes nodes
Props(names) ==
    LET sized == PropsUpTo(names, <<>>, 1)
    IN  UNION {sized[n] : n \in 1..MaxNodes}

\* the interpretations over Names, total and partial
Interpretations == UNION {[D -> BOOLEAN] : D \in SUBSET Names}

-----------------------------------------------------------------------------
(* The state: the text and the generator lexing it (its tokens so far and  *)
(* the exception that ended it), the proposition u and interpretation i,   *)
(* the other argument of a call (arg: an operand, an index or a name),     *)
(* where the text is from (src), the last call and what it returned (out). *)

NoOut == [ok |-> FALSE]

InitLex ==
    /\ text \in CharTexts \cup UnicodeTexts \cup WhitespaceTexts \cup ChainTexts
                 \cup {LexemeText, PrecedenceText1, PrecedenceText2}
    /\ gen = GenStart
    /\ toks = <<>>
    /\ lexerr = NoError
    /\ u = NoProp
    /\ i = <<>>
    /\ arg = None
    /\ src = "input"
    /\ call = "lex"
    /\ out = NoOut

\* next(_lex(text)), until the generator is closed
LexNext ==
    /\ call = "lex"
    /\ gen.at # "closed"
    /\ LET r == lex_next(text, gen)
       IN  /\ gen' = r.g
           /\ toks' = IF r.kind = "token" THEN Append(toks, <<r.type, r.value>>)
                      ELSE toks
           /\ lexerr' = r.err
    /\ UNCHANGED <<text, u, i, src, call, out, arg>>

NextLex == LexNext

SpecLex == InitLex /\ [][NextLex]_vars

InitParse ==
    /\ text \in ParseTexts \cup CharTexts \cup UnicodeTexts
    /\ gen = GenStart
    /\ toks = <<>>
    /\ lexerr = NoError
    /\ u = NoProp
    /\ i = <<>>
    /\ arg = None
    /\ src = "input"
    /\ call = "none"
    /\ out = NoOut

\* prop(text)
CallProp ==
    /\ call = "none"
    /\ src # "none"
    /\ call' = "prop"
    /\ out' = prop(text)
    /\ UNCHANGED <<text, gen, toks, lexerr, u, i, src, arg>>

NextParse == CallProp

SpecParse == InitParse /\ [][NextParse]_vars

\* the names the propositions that are formatted are built from
FormatNames == {<<"P">>, <<"_", "1">>}

P == Predicate(<<"P">>)

Q == Predicate(<<"Q">>)

\* TestInterpreting.test_tautology
Tautologies ==
    {Or(P, Not(P)),
     Implies(P, P),
     Implies(And(Implies(P, Q), P), Q),
     Implies(Implies(Implies(P, Q), P), P),
     Iff(Iff(P, Q), And(Implies(P, Q), Implies(Q, P))),
     Iff(Iff(P, Q), Or(And(P, Q), And(Not(P), Not(Q)))),
     Implies(And(Implies(P, Q), Implies(Not(P), Q)), Q)}

\* TestInterpreting.test_contradiction
Contradictions ==
    {And(P, Not(P)),
     Not(Or(P, Not(P))),
     Not(Implies(P, P)),
     Not(Iff(Iff(P, Q), And(Implies(P, Q), Implies(Q, P)))),
     Not(Iff(Iff(P, Q), Or(And(P, Q), And(Not(P), Not(Q)))))}

InitInterpret ==
    /\ text = <<>>
    /\ gen = GenStart
    /\ toks = <<>>
    /\ lexerr = NoError
    /\ u \in Props(Names) \cup Tautologies \cup Contradictions
    /\ i \in Interpretations
    /\ arg = None
    /\ src = "none"
    /\ call = "none"
    /\ out = NoOut

\* u(i)
CallInterpret ==
    /\ call = "none"
    /\ u # NoProp
    /\ call' = "interpret"
    /\ out' = call_prop(u, i)
    /\ UNCHANGED <<text, gen, toks, lexerr, u, i, src, arg>>

\* u built in plogic.core, then u(i)
CallPlogic ==
    /\ call = "none"
    /\ u # NoProp
    /\ call' = "plogic"
    /\ out' = plogic_construct_call(u, i)
    /\ UNCHANGED <<text, gen, toks, lexerr, u, i, src, arg>>

NextInterpret == CallInterpret \/ CallPlogic

SpecInterpret == InitInterpret /\ [][NextInterpret]_vars

InitFormat ==
    /\ text = <<>>
    /\ gen = GenStart
    /\ toks = <<>>
    /\ lexerr = NoError
    /\ u \in Props(FormatNames)
    /\ i = <<>>
    /\ arg = None
    /\ src = "none"
    /\ call = "none"
    /\ out = NoOut

\* text = u.formal()
CallFormal ==
    /\ src = "none"
    /\ text' = formal(u)
    /\ src' = "formal"
    /\ UNCHANGED <<gen, toks, lexerr, u, i, call, out, arg>>

\* text = str(u)
CallStr ==
    /\ src = "none"
    /\ text' = str(u)
    /\ src' = "str"
    /\ UNCHANGED <<gen, toks, lexerr, u, i, call, out, arg>>

\* text = repr(u)
CallRepr ==
    /\ src = "none"
    /\ text' = repr(u)
    /\ src' = "repr"
    /\ UNCHANGED <<gen, toks, lexerr, u, i, call, out, arg>>

NextFormat == CallFormal \/ CallStr \/ CallRepr \/ CallProp

SpecFormat == InitFormat /\ [][NextFormat]_vars

\* the texts lexed and parsed to their end
TerminateTexts ==
    CharTexts \cup ChainTexts \cup NegationTexts
        \cup {LexemeText, PrecedenceText1, PrecedenceText2, ParenthesesText1,
              ParenthesesText2}

\* list(_lex(text)), one next() at a time, or prop(text)
InitTerminate ==
    /\ text \in TerminateTexts
    /\ gen = GenStart
    /\ toks = <<>>
    /\ lexerr = NoError
    /\ u = NoProp
    /\ i = <<>>
    /\ arg = None
    /\ src = "input"
    /\ call \in {"lex", "none"}
    /\ out = NoOut

NextTerminate == LexNext \/ CallProp

\* the consumer of the generator calls next() until it is closed; a call
\* of prop is one step, which pulls the tokens it needs itself
SpecTerminate ==
    InitTerminate /\ [][NextTerminate]_vars /\ WF_vars(LexNext)

-----------------------------------------------------------------------------
(* Properties.                                                             *)

RECURSIVE PredicatesOf(_)
\* the names of the predicates that occur in p
PredicatesOf(p) ==
    IF p.k = "Predicate" THEN {p.name}
    ELSE UNION {PredicatesOf(p.kids[j]) : j \in 1..Len(p.kids)}

RECURSIVE Truth(_, _)
\* the classical truth value of p under a total assignment
Truth(p, v) ==
    IF p.k = "Predicate" THEN v[p.name]
    ELSE IF p.k = "Not" THEN ~Truth(p.kids[1], v)
    ELSE IF p.k = "And" THEN Truth(p.kids[1], v) /\ Truth(p.kids[2], v)
    ELSE IF p.k = "Or" THEN Truth(p.kids[1], v) \/ Truth(p.kids[2], v)
    ELSE IF p.k = "Implies" THEN Truth(p.kids[1], v) => Truth(p.kids[2], v)
    ELSE Truth(p.kids[1], v) <=> Truth(p.kids[2], v)

C3_TruthValue ==
    (call = "interpret" /\ PredicatesOf(u) \subseteq DOMAIN i) =>
        /\ out.ok
        /\ out.val = Truth(u, i)
        /\ u \in Tautologies => out.val = TRUE
        /\ u \in Contradictions => out.val = FALSE

C3_Witness ==
    /\ call = "interpret"
    /\ u = Iff(Iff(P, Q), Or(And(P, Q), And(Not(P), Not(Q))))
    /\ DOMAIN i = Names
    /\ ~i[<<"P">>]
    /\ ~i[<<"Q">>]
    /\ out.ok
    /\ out.val = TRUE

RECURSIVE LeftTree(_, _)
\* the left-leaning tree of the atoms under the class k
LeftTree(atoms, k) ==
    IF Len(atoms) = 1 THEN Predicate(atoms[1])
    ELSE [k |-> k, name |-> <<>>,
          kids |-> <<LeftTree(SubSeq(atoms, 1, Len(atoms) - 1), k),
                     Predicate(atoms[Len(atoms)])>>]

RECURSIVE RightTree(_, _)
\* the right-leaning tree of the atoms under the class k
RightTree(atoms, k) ==
    IF Len(atoms) = 1 THEN Predicate(atoms[1])
    ELSE [k |-> k, name |-> <<>>,
          kids |-> <<Predicate(atoms[1]), RightTree(Tail(atoms), k)>>]

ChainAtoms == UNION {[1..n -> Names] : n \in 2..MaxChain}

\* C4: prop of A1 & A2 & ... & An is And(...And(And(A1,A2),A3)...,An), and
\* of A1 | A2 | ... | An the same tree of Or, for every n >= 2.
C4_LeftAssociative ==
    (call = "prop" /\ text \in ChainTexts) =>
        \A atoms \in ChainAtoms :
            /\ text = Chain(atoms, <<"&">>) =>
                   (out.ok /\ out.prop = LeftTree(atoms, "And"))
            /\ text = Chain(atoms, <<"|">>) =>
                   (out.ok /\ out.prop = LeftTree(atoms, "Or"))

C4_Witness ==
    /\ call = "prop"
    /\ text = Chain(<<<<"P">>, <<"Q">>, <<"Q">>, <<"P">>>>, <<"&">>)
    /\ out.ok
    /\ out.prop = And(And(And(P, Q), Q), P)

\* C5: prop of A1 -> A2 -> ... -> An is Implies(A1, Implies(A2, ...
\* Implies(An-1, An))), and of A1 <-> ... <-> An the same tree of Iff, for
\* every n >= 2.
C5_RightAssociative ==
    (call = "prop" /\ text \in ChainTexts) =>
        \A atoms \in ChainAtoms :
            /\ text = Chain(atoms, <<"-", ">">>) =>
                   (out.ok /\ out.prop = RightTree(atoms, "Implies"))
            /\ text = Chain(atoms, <<"<", "-", ">">>) =>
                   (out.ok /\ out.prop = RightTree(atoms, "Iff"))

C5_Witness ==
    /\ call = "prop"
    /\ text = Chain(<<<<"P">>, <<"Q">>, <<"Q">>, <<"P">>>>, <<"-", ">">>)
    /\ out.ok
    /\ out.prop = Implies(P, Implies(Q, Implies(Q, P)))

\* the characters of s that are no space
Strip(s) == SelectSeq(s, LAMBDA c : c # " ")

RECURSIVE Flatten(_)
\* the characters of p read from left to right, without parentheses
Flatten(p) ==
    IF p.k = "Predicate" THEN p.name
    ELSE IF p.k = "Not" THEN <<"~">> \o Flatten(p.kids[1])
    ELSE Flatten(p.kids[1])
         \o (IF p.k = "And" THEN <<"&">>
             ELSE IF p.k = "Or" THEN <<"|">>
             ELSE IF p.k = "Implies" THEN <<"-", ">">>
             ELSE <<"<", "-", ">">>)
         \o Flatten(p.kids[2])

\* how loosely the operator of p binds: the table of the module docstring
Precedence(p) ==
    IF p.k = "Predicate" THEN 0
    ELSE IF p.k = "Not" THEN 1
    ELSE IF p.k = "And" THEN 2
    ELSE IF p.k = "Or" THEN 3
    ELSE IF p.k = "Implies" THEN 4
    ELSE 5

RECURSIVE Tighter(_)
\* every operand of every operator of p is built from operators that bind
\* tighter, or as tight on the side the operator associates to
Tighter(p) ==
    IF p.k = "Predicate" THEN TRUE
    ELSE IF p.k = "Not" THEN Precedence(p.kids[1]) <= 1 /\ Tighter(p.kids[1])
    ELSE /\ Tighter(p.kids[1])
         /\ Tighter(p.kids[2])
         /\ IF p.k \in {"And", "Or"}
            THEN /\ Precedence(p.kids[1]) <= Precedence(p)
                 /\ Precedence(p.kids[2]) < Precedence(p)
            ELSE /\ Precedence(p.kids[1]) < Precedence(p)
                 /\ Precedence(p.kids[2]) <= Precedence(p)

R == Predicate(<<"R">>)

S == Predicate(<<"S">>)

T == Predicate(<<"T">>)

\* C6: ~ binds tightest, then &, |, ->, <->: the proposition prop makes of
\* a whole text without parentheses reads as the text from left to right,
\* and the operands of each of its operators are built from
\* tighter-binding operators; the two texts of the tests parse to the
\* trees given.
C6_Precedence ==
    call = "prop" =>
        /\ (/\ out.ok
            /\ out.ps.type = None
            /\ \A j \in 1..Len(text) : text[j] \notin {"(", ")"})
           => (Flatten(out.prop) = Strip(text) /\ Tighter(out.prop))
        /\ text = PrecedenceText1 =>
               (out.ok /\ out.prop = Iff(P, Implies(Q, Or(R, And(S, Not(T))))))
        /\ text = PrecedenceText2 =>
               (out.ok /\ out.prop = Iff(Implies(Or(And(Not(P), Q), R), S), T))

C6_Witness ==
    /\ call = "prop"
    /\ text = PrecedenceText2
    /\ out.ok
    /\ out.ps.type = None
    /\ Tighter(out.prop)

\* C7: prop returns a proposition only when the whole token stream has
\* been consumed; tokens left after one formula make it fail.
C7_TrailingTokensFail ==
    (call = "prop" /\ out.ok) => (out.ps.type = None /\ out.ps.g.at = "closed")

\* the tokens of ts from the j-th on, read at nesting depth d of
\* parentheses with a unit needed or not: the index of the token that is
\* none of those the grammar allows there, 0 if the tokens end where a
\* unit or a ")" is needed, -1 if neither happens before the formula at
\* depth 0 is complete
RECURSIVE Offender(_, _, _, _)
Offender(ts, j, d, unit_needed) ==
    IF j > Len(ts) THEN (IF unit_needed \/ d > 0 THEN 0 ELSE -1)
    ELSE IF unit_needed THEN
        IF ts[j][1] = "ATOMIC" THEN Offender(ts, j + 1, d, FALSE)
        ELSE IF ts[j][1] = "NOT" THEN Offender(ts, j + 1, d, TRUE)
        ELSE IF ts[j][1] = "LPARENS" THEN Offender(ts, j + 1, d + 1, TRUE)
        ELSE j
    ELSE IF ts[j][1] \in {"AND", "OR", "IMPLIES", "IFF"}
    THEN Offender(ts, j + 1, d, TRUE)
    ELSE IF d = 0 THEN -1
    ELSE IF ts[j][1] = "RPARENS" THEN Offender(ts, j + 1, d - 1, FALSE)
    ELSE j

\* C8: where the parser needs a unit or a closing ")" and the current
\* token is something else, prop raises ValueError "unexpected token" with
\* the lexeme of that token, also in a text that does not lex after that
\* token; where the tokens of a text that lexes end there, it raises
\* ValueError "unexpected end of string". The tokens are those _lex yields
\* for the text, at least one (a _Parser exists).
C8_UnexpectedToken ==
    call = "prop" =>
        LET lexed == lex(text)
            ts == lexed.tokens
            j == Offender(ts, 1, 0, TRUE)
            \* the identifiers read before the offending token are names
            \* Predicate accepts
            named == \A h \in 1..Len(ts) :
                         (ts[h][1] = "ATOMIC" /\ (j <= 0 \/ h < j)) =>
                             ident_pattern_fullmatch(ts[h][2])
        IN  (ts # <<>> /\ named) =>
                /\ j > 0 => (~out.ok /\ out.err = unexp_token(ts[j][2]))
                /\ (j = 0 /\ lexed.err = NoError) =>
                       (~out.ok /\ out.err = UNEXP_END_OF_STR)
                /\ (j = -1 /\ lexed.err = NoError) => out.ok

C8_Witness ==
    /\ call = "prop"
    /\ text = Join(<<<<"(">>, <<"P">>, <<"Q">>>>)
    /\ ~out.ok
    /\ out.err = unexp_token(<<"Q">>)

C8_WitnessEnd ==
    /\ call = "prop"
    /\ text = Join(<<<<"(">>, <<"P">>>>)
    /\ out.err = UNEXP_END_OF_STR

\* C9: prop of a text without tokens raises ValueError "unexpected end of
\* string".
C9_NoTokens ==
    call = "prop" =>
        LET lexed == lex(text)
        IN  (lexed.err = NoError /\ lexed.tokens = <<>>) =>
                (~out.ok /\ out.err = UNEXP_END_OF_STR)

\* a character no token starts with and that is no whitespace
NoTokenStart(c) ==
    /\ c \notin Whitespace
    /\ ~isalpha(c)
    /\ c \notin {"_", "~", "&", "|", "-", "<", "(", ")"}

\* C10: when the text before the character s[k] lexes and a token would
\* have to start with s[k], which starts none, _lex raises ValueError
\* "unexpected character" naming s[k], having yielded exactly the tokens of
\* the text before it.
C10_UnexpectedCharacter ==
    (call = "lex" /\ gen.at = "closed") =>
        \A k \in 1..Len(text) :
            LET before == lex(SubSeq(text, 1, k - 1))
            IN  (/\ NoTokenStart(text[k])
                 /\ ~(/\ isalnum(text[k])
                      /\ k > 1
                      /\ (isalnum(text[k - 1]) \/ text[k - 1] = "_"))
                 /\ before.err = NoError)
                => (lexerr = unexp_char(text[k]) /\ toks = before.tokens)

C10_Witness ==
    /\ call = "lex"
    /\ gen.at = "closed"
    /\ text = <<"~", "P", "$">>
    /\ lexerr = unexp_char("$")
    /\ toks = <<<<"NOT", <<"~">>>>, <<"ATOMIC", <<"P">>>>>>

\* the first j for which the text ends before s[k + j] or s[k + j] is not
\* want[j], 0 if want follows s[k]
FirstMismatch(s, k, want) ==
    LET bad == {j \in 1..Len(want) :
                   \/ k + j > Len(s)
                   \/ \E h \in 1..j : k + h <= Len(s) /\ s[k + h] # want[h]}
    IN  IF bad = {} THEN 0 ELSE CHOOSE j \in bad : \A h \in bad : j <= h

\* C11: where a token starts with "-" and ">" does not follow, or with "<"
\* and "->" does not follow, _lex raises ValueError "unexpected character"
\* naming the first character that differs, or ValueError "unexpected end
\* of string" if the text ends there, and yields no token for the operator:
\* the tokens yielded are those of the text before it.
C11_IncompleteOperator ==
    (call = "lex" /\ gen.at = "closed") =>
        \A k \in 1..Len(text) :
            LET before == lex(SubSeq(text, 1, k - 1))
                want == IF text[k] = "-" THEN <<">">> ELSE <<"-", ">">>
                m == FirstMismatch(text, k, want)
            IN  (text[k] \in {"-", "<"} /\ before.err = NoError /\ m > 0) =>
                    /\ toks = before.tokens
                    /\ lexerr = IF k + m > Len(text) THEN UNEXP_END_OF_STR
                                ELSE unexp_char(text[k + m])

C11_Witness ==
    /\ call = "lex"
    /\ gen.at = "closed"
    /\ text = <<"P", "<", "-">>
    /\ toks = <<<<"ATOMIC", <<"P">>>>>>
    /\ lexerr = UNEXP_END_OF_STR

\* C11, the character that differs
C11_WitnessCharacter ==
    /\ call = "lex"
    /\ gen.at = "closed"
    /\ text = <<"-", "-", ">">>
    /\ toks = <<>>
    /\ lexerr = unexp_char("-")

\* space, tab, form feed, carriage return and newline
BlankCharacters == {" ", "\t", "\f", "\r", "\n"}

\* the runs of whitespace inserted
BlankRuns == UNION {[1..n -> BlankCharacters] : n \in 1..MaxInsert}

\* a character of an identifier
IdentChar(c) == isalnum(c) \/ c = "_"

\* in a text that lexes, the place after s[k] is between two tokens, before
\* the first or after the last: s[k] and s[k + 1] are not of one identifier
\* and s[k] is not the "-" or "<" an operator goes on from
TokenBoundary(s, k) ==
    \/ k = 0
    \/ k = Len(s)
    \/ /\ ~(IdentChar(s[k]) /\ IdentChar(s[k + 1]))
       /\ s[k] \notin {"-", "<"}

\* s with run inserted after s[k]
Insert(s, k, run) == SubSeq(s, 1, k) \o run \o SubSeq(s, k + 1, Len(s))

\* C12: for a text that lexes, inserting whitespace characters before,
\* after or between its tokens leaves the tokens _lex yields unchanged, and
\* a text of whitespace only yields no token.
C12_WhitespaceIgnored ==
    (call = "lex" /\ gen.at = "closed" /\ lexerr = NoError) =>
        /\ \A k \in 0..Len(text) :
              TokenBoundary(text, k) =>
                  \A run \in BlankRuns :
                      lex(Insert(text, k, run)) = [tokens |-> toks, err |-> NoError]
        /\ (\A j \in 1..Len(text) : text[j] \in BlankCharacters) => toks = <<>>

C12_Witness ==
    /\ call = "lex"
    /\ gen.at = "closed"
    /\ lexerr = NoError
    /\ text = <<"P", " ", "-", ">", " ", "Q">>
    /\ toks = <<<<"ATOMIC", <<"P">>>>, <<"IMPLIES", <<"-", ">">>>>, <<"ATOMIC", <<"Q">>>>>>
    /\ lex(<<"P", "\t", "\n", " ", "-", ">", " ", "Q">>).tokens = toks

\* C12, a text of whitespace only
C12_WitnessBlank ==
    /\ call = "lex"
    /\ gen.at = "closed"
    /\ lexerr = NoError
    /\ text = <<"\t", "\n", "\r">>
    /\ toks = <<>>

\* C13: every ATOMIC token _lex yields has a lexeme that matches
\* [A-Za-z_][A-Za-z0-9_]*, whatever the characters of the text.
C13_IdentifierMatchesPattern ==
    call = "lex" =>
        \A j \in 1..Len(toks) :
            toks[j][1] = "ATOMIC" => ident_pattern_fullmatch(toks[j][2])

\* C13, its consequence: prop returns no proposition with a predicate whose
\* name does not match the pattern (Predicate raises ValueError instead).
C13_ParsedNamesValid ==
    (call = "prop" /\ out.ok) =>
        \A name \in PredicatesOf(out.prop) : ident_pattern_fullmatch(name)

-----------------------------------------------------------------------------
(* The operations of flogic.core on a proposition u: Predicate(name),      *)
(* bool(u), u[index], u.degree(), list(u), u.__and__(x), u.__or__(x),      *)
(* u & x, u | x, x & u, x | u and u == x.                                  *)

\* TestComposition.samples
Samples == {P, Not(P), And(P, Q)}

\* object(), True and False
NonPropositions == {PyObject("object"), Bool(TRUE), Bool(FALSE)}

\* propositions that are logically equivalent or alike, and not equal
Alike ==
    {And(P, Q), And(Q, P), Or(P, Q), And(And(P, Q), R), And(P, And(Q, R))}

\* p with its left and right components exchanged
Mirror(p) ==
    IF Len(p.kids) = 2 THEN [p EXCEPT !.kids = <<p.kids[2], p.kids[1]>>] ELSE p

Indices == (-MaxIndex)..MaxIndex

\* the hash seeds a process may start with (PYTHONHASHSEED)
HashSeeds == {"seed 0", "seed 1"}

\* the names Predicate is called with
NameTexts == CharTexts \cup UnicodeTexts

InitCore ==
    /\ text = <<>>
    /\ gen = GenStart
    /\ toks = <<>>
    /\ lexerr = NoError
    /\ u \in Props(Names) \cup Alike \cup {NoProp}
    /\ i = <<>>
    /\ arg = None
    /\ src = "none"
    /\ call = "none"
    /\ out = NoOut

\* Predicate(name)
CallPredicate ==
    /\ call = "none"
    /\ u = NoProp
    /\ \E name \in NameTexts :
          /\ arg' = name
          /\ out' = Predicate_init(name)
    /\ call' = "Predicate"
    /\ UNCHANGED <<text, gen, toks, lexerr, u, i, src>>

\* bool(u)
CallBool ==
    /\ call = "none"
    /\ u # NoProp
    /\ call' = "bool"
    /\ out' = bool_prop(u)
    /\ UNCHANGED <<text, gen, toks, lexerr, u, i, arg, src>>

\* u[index]
CallGetitem ==
    /\ call = "none"
    /\ u # NoProp
    /\ \E index \in Indices :
          /\ arg' = index
          /\ out' = getitem(u, index)
    /\ call' = "getitem"
    /\ UNCHANGED <<text, gen, toks, lexerr, u, i, src>>

\* u.degree()
CallDegree ==
    /\ call = "none"
    /\ u # NoProp
    /\ call' = "degree"
    /\ out' = Value(degree(u))
    /\ UNCHANGED <<text, gen, toks, lexerr, u, i, arg, src>>

\* list(u)
CallIter ==
    /\ call = "none"
    /\ u # NoProp
    /\ call' = "iter"
    /\ out' = Value(iter_prop(u))
    /\ UNCHANGED <<text, gen, toks, lexerr, u, i, arg, src>>

\* u.__and__(x) and u.__or__(x)
CallDunder ==
    /\ call = "none"
    /\ u # NoProp
    /\ \E x \in Samples \cup NonPropositions, cls \in {"And", "Or"} :
          /\ arg' = x
          /\ out' = Value(Proposition_binary(cls, u, x))
          /\ call' = IF cls = "And" THEN "__and__" ELSE "__or__"
    /\ UNCHANGED <<text, gen, toks, lexerr, u, i, src>>

\* u & x and u | x
CallBinary ==
    /\ call = "none"
    /\ u # NoProp
    /\ \E x \in Samples \cup NonPropositions, cls \in {"And", "Or"} :
          /\ arg' = x
          /\ out' = binary_op(cls, u, x)
          /\ call' = IF cls = "And" THEN "u & x" ELSE "u | x"
    /\ UNCHANGED <<text, gen, toks, lexerr, u, i, src>>

\* x & u and x | u
CallReflected ==
    /\ call = "none"
    /\ u # NoProp
    /\ \E x \in Samples \cup NonPropositions, cls \in {"And", "Or"} :
          /\ arg' = x
          /\ out' = binary_op(cls, x, u)
          /\ call' = IF cls = "And" THEN "x & u" ELSE "x | u"
    /\ UNCHANGED <<text, gen, toks, lexerr, u, i, src>>

\* u == x
CallEq ==
    /\ call = "none"
    /\ u # NoProp
    /\ \E x \in Samples \cup Alike \cup NonPropositions \cup {u, Mirror(u)} :
          /\ arg' = x
          /\ out' = Value(eq(u, x))
    /\ call' = "eq"
    /\ UNCHANGED <<text, gen, toks, lexerr, u, i, src>>

\* hash(u) and hash(x) in one process, u and x being two objects
CallHash ==
    /\ call = "none"
    /\ u # NoProp
    /\ \E x \in Samples \cup Alike \cup {u, Mirror(u)}, seed \in HashSeeds :
          /\ arg' = x
          /\ out' = Value([seed |-> seed,
                          self |-> dataclass_hash(u, seed, "self"),
                          other |-> dataclass_hash(x, seed, "other")])
    /\ call' = "hash"
    /\ UNCHANGED <<text, gen, toks, lexerr, u, i, src>>

NextCore ==
    \/ CallHash
    \/ CallPredicate
    \/ CallBool
    \/ CallGetitem
    \/ CallDegree
    \/ CallIter
    \/ CallDunder
    \/ CallBinary
    \/ CallReflected
    \/ CallEq

SpecCore == InitCore /\ [][NextCore]_vars

\* the whole name is one of [A-Za-z_] followed by any of [A-Za-z0-9_]
WholeNameMatches(name) ==
    /\ name # <<>>
    /\ Head(name) \in AsciiLetters \cup {"_"}
    /\ \A j \in 1..Len(Tail(name)) :
           Tail(name)[j] \in AsciiLetters \cup AsciiDigits \cup {"_"}

\* C14: Predicate(name) returns a Predicate that stores name unchanged if
\* and only if the whole name matches [A-Za-z_][A-Za-z0-9_]*; for every
\* other name it raises ValueError.
C14_PredicateName ==
    call = "Predicate" =>
        /\ out.ok <=> WholeNameMatches(arg)
        /\ out.ok => (out.val.k = "Predicate" /\ out.val.name = arg)
        /\ ~out.ok => out.err.exc = "ValueError"

C14_Witness ==
    /\ call = "Predicate"
    /\ arg = <<"P", " ", "1">>
    /\ ~out.ok
    /\ out.err.exc = "ValueError"

\* C14, a name that is accepted
C14_WitnessValid ==
    /\ call = "Predicate"
    /\ arg = <<"_", "P", "1">>
    /\ out.ok
    /\ out.val = Predicate(<<"_", "P", "1">>)

\* C15: bool(u) raises TypeError for every proposition u and returns no
\* value.
C15_BoolRaises ==
    call = "bool" => (~out.ok /\ out.err.exc = "TypeError")

C15_Witness ==
    /\ call = "bool"
    /\ u = Iff(P, Not(Q))
    /\ ~out.ok
    /\ out.err.exc = "TypeError"

\* C16: u == x is True if and only if u and x are the same variant with
\* equal components in the same order; And(P, Q) != And(Q, P),
\* And(P, Q) != Or(P, Q) and And(And(P, Q), R) != And(P, And(Q, R)).
C16_StructuralEquality ==
    call = "eq" =>
        /\ out.ok
        /\ out.val \in {Bool(TRUE), Bool(FALSE)}
        /\ (out.val = Bool(TRUE)) <=> (u = arg)
        /\ (u = And(P, Q) /\ arg \in {And(Q, P), Or(P, Q)}) => out.val = Bool(FALSE)
        /\ (u = And(And(P, Q), R) /\ arg = And(P, And(Q, R))) => out.val = Bool(FALSE)

C16_Witness ==
    /\ call = "eq"
    /\ u = And(P, Q)
    /\ arg = And(Q, P)
    /\ out.val = Bool(FALSE)

\* C16, two equal propositions
C16_WitnessEqual ==
    /\ call = "eq"
    /\ u = Implies(Not(P), Q)
    /\ arg = Implies(Not(P), Q)
    /\ out.val = Bool(TRUE)

\* the number of components of a variant
Arity(p) == IF p.k = "Predicate" THEN 0 ELSE IF p.k = "Not" THEN 1 ELSE 2

\* C17: u[index] returns the component of that index when
\* 0 <= index < u.degree(), and raises IndexError for every other index,
\* negative indices and every index on a Predicate included.
C17_GetItem ==
    call = "getitem" =>
        IF arg \in 0..(Arity(u) - 1)
        THEN out.ok /\ out.val = u.kids[arg + 1]
        ELSE ~out.ok /\ out.err.exc = "IndexError"

C17_Witness ==
    /\ call = "getitem"
    /\ u = And(P, Not(Q))
    /\ arg = -1
    /\ ~out.ok
    /\ out.err.exc = "IndexError"

\* C17, a component returned
C17_WitnessChild ==
    /\ call = "getitem"
    /\ u = And(P, Not(Q))
    /\ arg = 1
    /\ out.ok
    /\ out.val = Not(Q)

\* C18: u.degree() is 0 for a Predicate, 1 for a Not and 2 for an And, Or,
\* Implies or Iff, whatever the components are, and is the number of
\* components list(u) gives.
C18_Degree ==
    /\ call = "degree" =>
          /\ out.ok
          /\ out.val = Arity(u)
          /\ out.val = Len(iter_prop(u))
    /\ call = "iter" =>
          /\ out.ok
          /\ Len(out.val) = degree(u)
          /\ out.val = u.kids

C18_Witness ==
    /\ call = "degree"
    /\ u = And(And(P, Q), R)
    /\ out.ok
    /\ out.val = 2

\* C18, a nested negation
C18_WitnessNot ==
    /\ call = "degree"
    /\ u = Not(Not(P))
    /\ out.ok
    /\ out.val = 1

\* C19: u.__and__(x) and u.__or__(x) return And(u, x) and Or(u, x) when x
\* is a Proposition and NotImplemented otherwise; u & x and u | x return
\* the same propositions, x & u and x | u return And(x, u) and Or(x, u),
\* and all four raise TypeError when x is no Proposition.
C19_Composition ==
    /\ call \in {"__and__", "__or__"} =>
          /\ out.ok
          /\ isinstance_Proposition(arg) =>
                 out.val = (IF call = "__and__" THEN And(u, arg) ELSE Or(u, arg))
          /\ ~isinstance_Proposition(arg) => out.val = NotImplemented
    /\ call \in {"u & x", "u | x"} =>
          /\ out.ok <=> isinstance_Proposition(arg)
          /\ out.ok => out.val = (IF call = "u & x" THEN And(u, arg) ELSE Or(u, arg))
          /\ ~out.ok => out.err.exc = "TypeError"
    /\ call \in {"x & u", "x | u"} =>
          /\ out.ok <=> isinstance_Proposition(arg)
          /\ out.ok => out.val = (IF call = "x & u" THEN And(arg, u) ELSE Or(arg, u))
          /\ ~out.ok => out.err.exc = "TypeError"

C19_Witness ==
    /\ call = "u & x"
    /\ u = Not(P)
    /\ arg = Bool(TRUE)
    /\ ~out.ok
    /\ out.err.exc = "TypeError"

\* C19, the reflected operation with an object
C19_WitnessReflected ==
    /\ call = "x | u"
    /\ u = And(P, Q)
    /\ arg = PyObject("object")
    /\ ~out.ok
    /\ out.err.exc = "TypeError"

\* C19, two propositions composed
C19_WitnessBuilt ==
    /\ call = "u | x"
    /\ u = Not(P)
    /\ arg = And(P, Q)
    /\ out.ok
    /\ out.val = Or(Not(P), And(P, Q))

\* the symbol of a binary connective
Symbol(p) ==
    IF p.k = "And" THEN <<"&">>
    ELSE IF p.k = "Or" THEN <<"|">>
    ELSE IF p.k = "Implies" THEN <<"-", ">">>
    ELSE <<"<", "-", ">">>

RECURSIVE Canonical(_)
\* s, in parentheses if wanted
Parenthesized(s, wanted) == IF wanted THEN <<"(">> \o s \o <<")">> ELSE s

\* the rendering with the parentheses the parse needs and no other: a
\* component is in parentheses when its operator binds more loosely than
\* the operator above it, or as loosely on the side that operator does
\* not associate to
Canonical(p) ==
    IF p.k = "Predicate" THEN p.name
    ELSE IF p.k = "Not"
    THEN <<"~">> \o Parenthesized(Canonical(p.kids[1]), Precedence(p.kids[1]) > 1)
    ELSE Parenthesized(Canonical(p.kids[1]),
                       IF p.k \in {"And", "Or"}
                       THEN Precedence(p.kids[1]) > Precedence(p)
                       ELSE Precedence(p.kids[1]) >= Precedence(p))
         \o <<" ">> \o Symbol(p) \o <<" ">>
         \o Parenthesized(Canonical(p.kids[2]),
                          IF p.k \in {"And", "Or"}
                          THEN Precedence(p.kids[2]) >= Precedence(p)
                          ELSE Precedence(p.kids[2]) > Precedence(p))

\* C20: str(u) has parentheses only where omitting them would change the
\* parse: around a component whose operator binds more loosely than its
\* parent's, or as loosely on the non-associative side; str of
\* And(And(P, Q), R) is "P & Q & R".
C20_CanonicalStr ==
    src = "str" => text = Canonical(u)

\* C20, what the code does: str(u) is u.formal() for every proposition
C20_StrIsFormal ==
    src = "str" => text = formal(u)

RECURSIVE Simple(_)
\* whether p is one of the four binary nodes
IsBinary(p) == p.k \in {"And", "Or", "Implies", "Iff"}

\* the rendering with a left-nested chain of one connective written flat:
\* a binary component is in parentheses when its connective differs from
\* the one above it or when it is the right operand
Simple(p) ==
    IF p.k = "Predicate" THEN p.name
    ELSE IF p.k = "Not"
    THEN <<"~">> \o Parenthesized(Simple(p.kids[1]), IsBinary(p.kids[1]))
    ELSE Parenthesized(Simple(p.kids[1]),
                       IsBinary(p.kids[1]) /\ p.kids[1].k # p.k)
         \o <<" ">> \o Symbol(p) \o <<" ">>
         \o Parenthesized(Simple(p.kids[2]), IsBinary(p.kids[2]))

RECURSIVE Connectives(_)
\* the classes of the nodes of p
Connectives(p) ==
    {p.k} \cup UNION {Connectives(p.kids[j]) : j \in 1..Len(p.kids)}

\* C21: for &, | and <->, str(u) writes a left-nested chain without
\* parentheses, puts a binary right operand and a binary component of
\* another connective in parentheses and never the outermost node, and
\* repr(u) is 'prop(' + repr(str(u)) + ')'.
C21_SimpleStr ==
    /\ (src = "str" /\ "Implies" \notin Connectives(u)) => text = Simple(u)
    /\ src = "repr" => text = <<"p", "r", "o", "p", "(", "'">> \o str(u) \o <<"'", ")">>

\* C21, the part the code keeps: repr(u) wraps str(u), whatever str(u) is
C21_ReprWrapsStr ==
    src = "repr" => text = <<"p", "r", "o", "p", "(", "'">> \o formal(u) \o <<"'", ")">>

RECURSIVE FullyParenthesized(_)
\* every binary node in its own pair of parentheses, nothing else added
FullyParenthesized(p) ==
    IF p.k = "Predicate" THEN p.name
    ELSE IF p.k = "Not" THEN <<"~">> \o FullyParenthesized(p.kids[1])
    ELSE <<"(">> \o FullyParenthesized(p.kids[1]) \o <<" ">> \o Symbol(p)
         \o <<" ">> \o FullyParenthesized(p.kids[2]) \o <<")">>

\* C22: formal() is fully parenthesized at every depth: a predicate is its
\* name, Not(x) is '~' and x's rendering with no parentheses added, and
\* every binary node, outermost or nested, Iff included, is
\* '(' left ' op ' right ')'.
C22_FormalFullyParenthesized ==
    src = "formal" => text = FullyParenthesized(u)

\* an Iff nested in an Or has been rendered, both in parentheses
C22_Witness ==
    /\ src = "formal"
    /\ u = Or(Iff(Predicate(<<"_", "1">>), Predicate(<<"P">>)), Predicate(<<"P">>))
    /\ text = <<"(", "(", "_", "1", " ", "<", "-", ">", " ", "P", ")", " ", "|",
               " ", "P", ")">>

\* C23: u == x implies hash(u) == hash(x), also when u and x are equal
\* trees built separately.
C23_HashConsistent ==
    (call = "hash" /\ eq(u, arg) = Bool(TRUE)) => out.val.self = out.val.other

\* the hashes of two separately built Implies(P, Not(Q)) have been taken
C23_Witness ==
    /\ call = "hash"
    /\ u = Implies(P, Not(Q))
    /\ arg = Implies(Predicate(<<"P">>), Not(Predicate(<<"Q">>)))
    /\ out.val.self = out.val.other

\* two propositions that are not equal have been hashed to different values
C23_WitnessDistinct ==
    /\ call = "hash"
    /\ eq(u, arg) = Bool(FALSE)
    /\ out.val.self # out.val.other

RECURSIVE Wrap(_, _)
\* s in n pairs of parentheses
Wrap(s, n) == IF n = 0 THEN s ELSE <<"(">> \o Wrap(s, n - 1) \o <<")">>

\* prop(Wrap(text, n)) returns what prop(text) returned
SameWrapped(n) ==
    LET wrapped == prop(Wrap(text, n))
    IN  wrapped.ok /\ wrapped.prop = out.prop

\* C24: parentheses are transparent: when prop(text) returns t, the text
\* in any number of pairs of parentheses parses to t too, and a formula
\* in parentheses may stand wherever a unit is allowed:
\* 'P & (Q & R)' is And(P, And(Q, R)), '(P -> Q) -> R' is
\* Implies(Implies(P, Q), R).
C24_ParenthesesTransparent ==
    (call = "prop" /\ out.ok) =>
        /\ \A n \in 1..MaxWrap : SameWrapped(n)
        /\ text = ParenthesesText1 => out.prop = And(P, And(Q, R))
        /\ text = ParenthesesText2 => out.prop = Implies(Implies(P, Q), R)

\* C24, for the texts prop reads to their end: parentheses around them
\* change nothing
C24_WholeTextWrapped ==
    (call = "prop" /\ out.ok /\ out.ps.type = None) =>
        /\ \A n \in 1..MaxWrap : SameWrapped(n)
        /\ text = ParenthesesText1 => out.prop = And(P, And(Q, R))
        /\ text = ParenthesesText2 => out.prop = Implies(Implies(P, Q), R)

RECURSIVE NotTimes(_, _)
\* Not applied n times to p
NotTimes(n, p) == IF n = 0 THEN p ELSE Not(NotTimes(n - 1, p))

\* the proposition a unit of NegationUnits stands for
UnitProp(a) ==
    IF a = <<"P">> THEN P
    ELSE IF a = <<"(", "~", "P", ")">> THEN Not(P)
    ELSE And(P, Q)

\* C25: negation is prefix and stacks: n '~' in front of a unit A parse
\* to Not applied n times to A, and '~' applies to the negation or unit
\* that follows it only: '~P & Q' is And(Not(P), Q).
C25_NegationStacks ==
    call = "prop" =>
        /\ \A n \in 0..MaxNegations, a \in NegationUnits :
               text = Tildes(n) \o a =>
                   (out.ok /\ out.prop = NotTimes(n, UnitProp(a)))
        /\ text = <<"~", "P", " ", "&", " ", "Q">> =>
               (out.ok /\ out.prop = And(Not(P), Q))

\* three "~" in front of a formula in parentheses have been parsed
C25_Witness ==
    /\ call = "prop"
    /\ text = <<"~", "~", "~", "(", "P", " ", "&", " ", "Q", ")">>
    /\ out.ok
    /\ out.prop = Not(Not(Not(And(P, Q))))

\* '~P & Q' has been parsed to And(Not(P), Q)
C25_WitnessPrefix ==
    /\ call = "prop"
    /\ text = <<"~", "P", " ", "&", " ", "Q">>
    /\ out.ok
    /\ out.prop = And(Not(P), Q)

\* the characters of the text the loop of _lex is done with: those taken
\* from the iterator, less the one read ahead after an identifier
Consumed(g) == IF g.at = "yield_ident" /\ g.c # None THEN g.pos - 1 ELSE g.pos

\* every next() on the generator gets further in the text or closes the
\* generator, and no token is yielded without a character of its own
LexerProgress ==
    LexNext => /\ (Consumed(gen') > Consumed(gen) \/ gen'.at = "closed")
               /\ Len(toks') <= Consumed(gen')

\* prop has returned a proposition or raised, with no more characters
\* taken from the text than it has
PropEnded ==
    /\ out.ok \/ out.err # NoError
    /\ out.ps.g.pos <= Len(text)

C26_WitnessRaised ==
    /\ call = "prop"
    /\ text = <<"(", "(", "P">>
    /\ ~out.ok

RECURSIVE LexemesOf(_)
\* the lexemes of the tokens ts, one after the other
LexemesOf(ts) == IF ts = <<>> THEN <<>> ELSE Head(ts)[2] \o LexemesOf(Tail(ts))

C27_WitnessLookahead ==
    /\ call = "lex"
    /\ text = <<"P", " ", "-", ">", " ", "Q", " ", "-", ">", " ", "P">>
    /\ gen.at = "closed"
    /\ lexerr = NoError
    /\ Len(toks) = 5

\* C28: prop never returns a proposition for a text the lexer cannot
\* tokenize to its end, wherever the error is, also after a prefix that
\* is a complete formula: prop raises and returns no partial result.
C28_LexErrorRaised ==
    call = "prop" => (lex(text).err # NoError => ~out.ok)

\* C28, what the code does: when prop returns a proposition for such a
\* text, the generator is still suspended before the place of the error
C28_LexErrorNotReached ==
    (call = "prop" /\ out.ok) =>
        LET lexed == lex(text)
        IN  lexed.err # NoError => out.ps.g.at # "closed"

RECURSIVE Leaves(_)
\* the names of the predicates of p, every occurrence, from left to right
Leaves(p) ==
    IF p.k = "Predicate" THEN <<p.name>>
    ELSE IF Len(p.kids) = 1 THEN Leaves(p.kids[1])
    ELSE Leaves(p.kids[1]) \o Leaves(p.kids[2])

\* the place in names of the first one that interpretation does not assign
FirstUnassigned(names, interpretation) ==
    CHOOSE k \in 1..Len(names) :
        /\ names[k] \notin DOMAIN interpretation
        /\ \A j \in 1..(k - 1) : names[j] \in DOMAIN interpretation

\* C29: operands are interpreted left before right: the ValueError names
\* the first unassigned predicate in left-to-right, depth-first order, and
\* no predicate to its right has been looked up when it is raised.
C29_LeftBeforeRight ==
    (call = "interpret" /\ ~out.ok) =>
        LET k == FirstUnassigned(Leaves(u), i)
        IN  /\ out.err.arg = Leaves(u)[k]
            /\ out.lookups = SubSeq(Leaves(u), 1, k)

\* Q is assigned, P is not: P is named, and the Q to its right has not
\* been looked up
C29_Witness ==
    /\ call = "interpret"
    /\ u = Or(Q, And(P, Q))
    /\ DOMAIN i = {<<"Q">>}
    /\ ~out.ok
    /\ out.err.arg = <<"P">>
    /\ out.lookups = << <<"Q">>, <<"P">> >>

\* nothing is assigned: the predicate on the left is named
C29_WitnessFirst ==
    /\ call = "interpret"
    /\ u = Implies(Q, P)
    /\ DOMAIN i = {}
    /\ ~out.ok
    /\ out.err.arg = <<"Q">>

RECURSIVE ShortCircuit(_, _)
\* "True", "False" or "ValueError": the value of p under v when the second
\* operand of a connective is interpreted only if the value of the first
\* does not determine the value of the connective
ShortCircuit(p, v) ==
    IF p.k = "Predicate" THEN
        IF p.name \notin DOMAIN v THEN "ValueError"
        ELSE IF v[p.name] THEN "True" ELSE "False"
    ELSE IF p.k = "Not" THEN
        LET x == ShortCircuit(p.kids[1], v)
        IN  IF x = "True" THEN "False" ELSE IF x = "False" THEN "True" ELSE x
    ELSE LET x == ShortCircuit(p.kids[1], v)
             y == ShortCircuit(p.kids[2], v)
         IN  IF x = "ValueError" THEN x
             ELSE IF p.k = "And" THEN (IF x = "False" THEN "False" ELSE y)
             ELSE IF p.k = "Or" THEN (IF x = "True" THEN "True" ELSE y)
             ELSE IF p.k = "Implies" THEN (IF x = "False" THEN "True" ELSE y)
             ELSE IF y = "ValueError" THEN y
             ELSE IF x = y THEN "True" ELSE "False"

\* "True", "False" or the class of the exception: what a call gave
Outcome(r) == IF ~r.ok THEN r.err.exc ELSE IF r.val THEN "True" ELSE "False"

\* C30: in the draft plogic.core, interpreting short-circuits as its
\* docstring says: the second operand is not interpreted when the first
\* determines the value, so prop('p | q') with only p=True is True and
\* raises no ValueError.
C30_ShortCircuit ==
    call = "plogic" =>
        /\ Outcome(out) = ShortCircuit(u, i)
        /\ (u = Or(P, Q) /\ DOMAIN i = {<<"P">>} /\ i[<<"P">>]) =>
               (out.ok /\ out.val /\ out.lookups = << <<"P">> >>)

\* C30, what the code does: no proposition of plogic.core can be built,
\* so none is interpreted
C30_NeverBuilt ==
    call = "plogic" => (~out.ok /\ out.err.exc = "TypeError")

\* C30, the methods taken alone: _interpret of plogic.core, on a
\* proposition that had been built, short-circuits as the docstring says
C30_MethodsShortCircuit ==
    (call = "plogic" /\ u # NoProp) =>
        /\ Outcome(plogic_interpret(u, i)) = ShortCircuit(u, i)
        /\ (u = Or(P, Q) /\ DOMAIN i = {<<"P">>} /\ i[<<"P">>]) =>
               plogic_interpret(u, i).lookups = << <<"P">> >>

=============================================================================
